---- MODULE Spec2Model ----
\* A model of bin/ds_mapper.py: the DualSense -> uinput / HID-gadget mapper.
\*
\* Two execution contexts share one DSMapper object: the dispatch loop
\* (DSMapper.start) and the rapid-fire thread (DSMapper._rapid_fire_loop).
\* Every call of _w and of _syn runs under self._lock and is one atomic step
\* here; everything a handler does outside the lock before its first _w
\* (storing the axis sample, computing the key states or the deltas, flipping
\* rf_enabled) is the step that reads the event. SpecSession below takes
\* the same calls apart into the statements inside the with block, lets the
\* writes to the synthetic device raise, and follows start() into cleanup().
\*
\* Output key codes are written by their ecodes names ("KEY_E", "BTN_LEFT");
\* the codes of the controller's buttons are the kernel's numbers, because
\* _handle_key resolves a number to a name by scanning dir(ecodes).
\* Sensitivities are floats in the source (0.5); the model holds them in
\* tenths (5), so that x * sens / 10 is the exact rational x * tenths / 100.
EXTENDS Integers, Sequences, FiniteSets, TLC

VARIABLES
    hid_fd,            \* "open" | "none": self.hid_fd
    _mod_state,        \* self._mod_state, 0..255
    _keys_down,        \* self._keys_down, sequence of HID usage codes
    _mouse_buttons,    \* self._mouse_buttons, 0..7
    _last_abs_values,  \* self._last_abs_values, axis name -> last raw sample
    rf_enabled,        \* self.rf_enabled
    key_map,           \* self.key_map, button name -> output key
    deadzone,          \* self.deadzone
    mouse_sens_x,      \* self.mouse_sens_x, in tenths
    mouse_sens_y,      \* self.mouse_sens_y, in tenths
    invert_y,          \* self.invert_y
    dq,                \* the _w / _syn calls the running handler has still to make
    pc_rf,             \* where the rapid-fire thread stands in its loop
    uin_out,           \* what the last step wrote to the uinput device
    hid_out,           \* the bytes the last step wrote to /dev/hidg0
    uin_rf,            \* the last value the uinput device got for rf_button
    popped,            \* what the last step's _keys_down.pop(0) returned, if it ran
    running,           \* self.running
    _lock,             \* self._lock: "free", or the thread that holds it
    frame,             \* per thread, where it stands inside _w or _syn
    uin,               \* "open" | "closed": self.uin
    dev_objs,          \* self.dev_objs: per device, grabbed and open or not
    tried,             \* the close() and ungrab() calls cleanup has made
    pc_start           \* where the main thread stands in start() and cleanup()

vars == << hid_fd, _mod_state, _keys_down, _mouse_buttons, _last_abs_values,
           rf_enabled, key_map, deadzone, mouse_sens_x, mouse_sens_y, invert_y,
           dq, pc_rf, uin_out, hid_out, uin_rf, popped,
           running, _lock, frame, uin, dev_objs, tried, pc_start >>

cfgVars == << key_map, deadzone, mouse_sens_x, mouse_sens_y, invert_y >>

\* What only the end of the session and the steps inside _w and _syn change.
sessionVars == << running, _lock, frame, uin, dev_objs, tried, pc_start >>

-----------------------------------------------------------------------------
\* Tables

\* evdev key -> USB HID usage (the whole table of the source).
EVDEV_TO_HID ==
    [ KEY_A |-> 4, KEY_B |-> 5, KEY_C |-> 6, KEY_D |-> 7,
      KEY_E |-> 8, KEY_F |-> 9, KEY_G |-> 10, KEY_H |-> 11,
      KEY_I |-> 12, KEY_J |-> 13, KEY_K |-> 14, KEY_L |-> 15,
      KEY_M |-> 16, KEY_N |-> 17, KEY_O |-> 18, KEY_P |-> 19,
      KEY_Q |-> 20, KEY_R |-> 21, KEY_S |-> 22, KEY_T |-> 23,
      KEY_U |-> 24, KEY_V |-> 25, KEY_W |-> 26, KEY_X |-> 27,
      KEY_Y |-> 28, KEY_Z |-> 29,
      KEY_1 |-> 30, KEY_2 |-> 31, KEY_3 |-> 32, KEY_4 |-> 33,
      KEY_5 |-> 34, KEY_6 |-> 35, KEY_7 |-> 36, KEY_8 |-> 37,
      KEY_9 |-> 38, KEY_0 |-> 39,
      KEY_ENTER |-> 40, KEY_ESC |-> 41, KEY_BACKSPACE |-> 42,
      KEY_TAB |-> 43, KEY_SPACE |-> 44,
      KEY_MINUS |-> 45, KEY_EQUAL |-> 46, KEY_LEFTBRACE |-> 47,
      KEY_RIGHTBRACE |-> 48, KEY_BACKSLASH |-> 49, KEY_SEMICOLON |-> 51,
      KEY_APOSTROPHE |-> 52, KEY_GRAVE |-> 53, KEY_COMMA |-> 54,
      KEY_DOT |-> 55, KEY_SLASH |-> 56, KEY_CAPSLOCK |-> 57,
      KEY_F1 |-> 58, KEY_F2 |-> 59, KEY_F3 |-> 60, KEY_F4 |-> 61,
      KEY_F5 |-> 62, KEY_F6 |-> 63, KEY_F7 |-> 64, KEY_F8 |-> 65,
      KEY_F9 |-> 66, KEY_F10 |-> 67, KEY_F11 |-> 68, KEY_F12 |-> 69 ]

MODIFIER_BITS ==
    [ KEY_LEFTCTRL |-> 1, KEY_LEFTSHIFT |-> 2, KEY_LEFTALT |-> 4,
      KEY_LEFTMETA |-> 8, KEY_RIGHTCTRL |-> 16, KEY_RIGHTSHIFT |-> 32,
      KEY_RIGHTALT |-> 64, KEY_RIGHTMETA |-> 128 ]

MOUSE_BUTTON_BITS ==
    [ BTN_LEFT |-> 1, BTN_RIGHT |-> 2, BTN_MIDDLE |-> 4 ]

\* dir(ecodes) restricted to the BTN_ names of the gamepad block, in dir()'s
\* (sorted) order, each with its value (linux/input-event-codes.h, which
\* python-evdev's ecodes mirrors, aliases included).
ecodes_BTN ==
    << [name |-> "BTN_A",       code |-> 304],
       [name |-> "BTN_B",       code |-> 305],
       [name |-> "BTN_C",       code |-> 306],
       [name |-> "BTN_EAST",    code |-> 305],
       [name |-> "BTN_GAMEPAD", code |-> 304],
       [name |-> "BTN_MODE",    code |-> 316],
       [name |-> "BTN_NORTH",   code |-> 307],
       [name |-> "BTN_SELECT",  code |-> 314],
       [name |-> "BTN_SOUTH",   code |-> 304],
       [name |-> "BTN_START",   code |-> 315],
       [name |-> "BTN_THUMBL",  code |-> 317],
       [name |-> "BTN_THUMBR",  code |-> 318],
       [name |-> "BTN_TL",      code |-> 310],
       [name |-> "BTN_TL2",     code |-> 312],
       [name |-> "BTN_TR",      code |-> 311],
       [name |-> "BTN_TR2",     code |-> 313],
       [name |-> "BTN_WEST",    code |-> 308],
       [name |-> "BTN_X",       code |-> 307],
       [name |-> "BTN_Y",       code |-> 308],
       [name |-> "BTN_Z",       code |-> 309] >>

\* getattr(ecodes, name)
ecode(name) ==
    ecodes_BTN[CHOOSE i \in 1..Len(ecodes_BTN) : ecodes_BTN[i].name = name].code

BTN_SOUTH  == ecode("BTN_SOUTH")
BTN_EAST   == ecode("BTN_EAST")
BTN_NORTH  == ecode("BTN_NORTH")
BTN_WEST   == ecode("BTN_WEST")
BTN_TL     == ecode("BTN_TL")
BTN_TR     == ecode("BTN_TR")
BTN_TL2    == ecode("BTN_TL2")
BTN_TR2    == ecode("BTN_TR2")
BTN_SELECT == ecode("BTN_SELECT")
BTN_START  == ecode("BTN_START")
BTN_THUMBL == ecode("BTN_THUMBL")

\* rf.get("button", "BTN_RIGHT") with no rapid_fire section in the file.
rf_button == "BTN_RIGHT"

\* The default of cfg.get("key_mapping", {...}); the source's ecodes.TAB is
\* read as KEY_TAB.
DefaultKeyMap ==
    [ BTN_SOUTH  |-> "KEY_SPACE",
      BTN_EAST   |-> "KEY_ENTER",
      BTN_NORTH  |-> "KEY_E",
      BTN_WEST   |-> "KEY_Q",
      BTN_START  |-> "KEY_ESC",
      BTN_SELECT |-> "KEY_TAB",
      BTN_TL     |-> "KEY_LEFTSHIFT",
      BTN_TR     |-> "KEY_LEFTCTRL" ]

-----------------------------------------------------------------------------
\* Integer helpers

Abs(n) == IF n < 0 THEN -n ELSE n

Max(a, b) == IF a > b THEN a ELSE b

Min(a, b) == IF a < b THEN a ELSE b

\* m | bit, for bit a power of two
BitOr(m, bit) == IF (m \div bit) % 2 = 1 THEN m ELSE m + bit

\* m & ~bit, for bit a power of two
BitClear(m, bit) == IF (m \div bit) % 2 = 1 THEN m - bit ELSE m

\* int(n / d) of Python for d > 0: the quotient truncated toward zero
PyInt(n, d) == IF n >= 0 THEN n \div d ELSE -((-n) \div d)

\* [0x00] * n
Zeros(n) == [i \in 1..n |-> 0]

Contains(s, x) == \E i \in 1..Len(s) : s[i] = x

\* list.remove(x): the list without the first x
RemoveFirst(s, x) ==
    LET i == CHOOSE j \in 1..Len(s) : s[j] = x /\ \A k \in 1..(j-1) : s[k] # x
    IN  SubSeq(s, 1, i - 1) \o SubSeq(s, i + 1, Len(s))

-----------------------------------------------------------------------------
\* Report codec and the state update of _w

\* EVDEV_TO_HID.get(code, 0)
HidOf(code) == IF code \in DOMAIN EVDEV_TO_HID THEN EVDEV_TO_HID[code] ELSE 0

\* The list size at which _w drops the head before it appends.
MaxKeysDown == 6

\* The number of key slots _send_keyboard_report pads the list to.
KeySlots == 6

\* _w, "normal" keys: whether self._keys_down.pop(0) runs.
Pops(keys, hid, value) ==
    value # 0 /\ ~Contains(keys, hid) /\ Len(keys) >= MaxKeysDown

\* KeysAfter with the wrong end dropped: the newest entry instead of the oldest.
KeysAfter_DropsNewest(keys, hid, value) ==
    IF value # 0 /\ ~Contains(keys, hid)
    THEN (IF Pops(keys, hid, value) THEN SubSeq(keys, 1, Len(keys) - 1) ELSE keys)
         \o << hid >>
    ELSE IF value = 0 /\ Contains(keys, hid)
         THEN RemoveFirst(keys, hid)
         ELSE keys

\* KeysAfter with the membership test of the press left out: a press of a
\* key already in the list appends it again.
KeysAfter_AppendsAgain(keys, hid, value) ==
    IF value # 0
    THEN (IF Len(keys) >= MaxKeysDown THEN Tail(keys) ELSE keys) \o << hid >>
    ELSE IF value = 0 /\ Contains(keys, hid)
         THEN RemoveFirst(keys, hid)
         ELSE keys

\* KeysAfter with the membership test of the release left out: a release
\* drops the head of the list.
KeysAfter_ReleaseUnchecked(keys, hid, value) ==
    IF value # 0 /\ ~Contains(keys, hid)
    THEN (IF Pops(keys, hid, value) THEN Tail(keys) ELSE keys) \o << hid >>
    ELSE IF value = 0 /\ keys # << >>
         THEN Tail(keys)
         ELSE keys

\* _w, "normal" keys: the new _keys_down for usage code hid and value.
KeysAfter(keys, hid, value) ==
    IF value # 0 /\ ~Contains(keys, hid)
    THEN (IF Pops(keys, hid, value) THEN Tail(keys) ELSE keys) \o << hid >>
    ELSE IF value = 0 /\ Contains(keys, hid)
         THEN RemoveFirst(keys, hid)
         ELSE keys

\* MaskAfter with the release left out: the bit is never cleared.
MaskAfter_NeverClears(mask, bit, value) ==
    IF value # 0 THEN BitOr(mask, bit) ELSE mask

\* _w, mouse buttons and modifiers: mask |= bit, or mask &= ~bit.
MaskAfter(mask, bit, value) ==
    IF value # 0 THEN BitOr(mask, bit) ELSE BitClear(mask, bit)

\* KeyboardReport without the zero padding of the unused key slots.
KeyboardReport_Unpadded(mod, keys) ==
    << 1, mod, 0 >> \o keys \o << 0, 0 >>

\* The bytes _send_keyboard_report builds.
KeyboardReport(mod, keys) ==
    << 1, mod, 0 >> \o keys \o Zeros(KeySlots - Len(keys)) \o << 0, 0 >>

\* Clamp left out: the delta goes to the byte mask as it is.
Clamp_Missing(d) == d

\* max(-127, min(127, d))
Clamp(d) == Max(-127, Min(127, d))

\* The bytes _send_mouse_report builds.
MouseReport(buttons, dx, dy) ==
    << 2, buttons, Clamp(dx) % 256, Clamp(dy) % 256 >> \o Zeros(7)

-----------------------------------------------------------------------------
\* _w and _syn

KeyEv(code, value) == [op |-> "w", type |-> "EV_KEY", code |-> code, value |-> value]

RelEv(code, value) == [op |-> "w", type |-> "EV_REL", code |-> code, value |-> value]

SynEv == [op |-> "syn", type |-> "EV_SYN", code |-> "SYN_REPORT", value |-> 0]

\* What _w does to the HID state once it is past the hid_fd check: the new
\* masks and list, and the report it hands to the HID sink (<< >>: none).
WEffect(mod, keys, mouse, ev) ==
    IF ev.type = "EV_KEY"
    THEN IF ev.code \in DOMAIN MOUSE_BUTTON_BITS
         THEN LET m == MaskAfter(mouse, MOUSE_BUTTON_BITS[ev.code], ev.value)
              IN  [mod |-> mod, keys |-> keys, mouse |-> m,
                   popped |-> << >>, report |-> MouseReport(m, 0, 0)]
         ELSE IF ev.code \in DOMAIN MODIFIER_BITS
         THEN LET m == MaskAfter(mod, MODIFIER_BITS[ev.code], ev.value)
              IN  [mod |-> m, keys |-> keys, mouse |-> mouse,
                   popped |-> << >>, report |-> KeyboardReport(m, keys)]
         ELSE IF HidOf(ev.code) # 0
         THEN LET k == KeysAfter(keys, HidOf(ev.code), ev.value)
              IN  [mod |-> mod, keys |-> k, mouse |-> mouse,
                   popped |-> IF Pops(keys, HidOf(ev.code), ev.value)
                              THEN << Head(keys) >> ELSE << >>,
                   report |-> KeyboardReport(mod, k)]
         ELSE [mod |-> mod, keys |-> keys, mouse |-> mouse, popped |-> << >>, report |-> << >>]
    ELSE IF ev.type = "EV_REL" /\ ev.code = "REL_X"
    THEN [mod |-> mod, keys |-> keys, mouse |-> mouse,
          popped |-> << >>, report |-> MouseReport(mouse, ev.value, 0)]
    ELSE IF ev.type = "EV_REL" /\ ev.code = "REL_Y"
    THEN [mod |-> mod, keys |-> keys, mouse |-> mouse,
          popped |-> << >>, report |-> MouseReport(mouse, 0, ev.value)]
    ELSE [mod |-> mod, keys |-> keys, mouse |-> mouse, popped |-> << >>, report |-> << >>]

\* Whether hid_fd.write can return: not on a file that was closed.
HidOutcomes(fd) == IF fd = "closed" THEN {FALSE} ELSE BOOLEAN

\* hid_fd.write(report); hid_fd.flush(): it succeeds, or it raises and the
\* except clause sets hid_fd to None.
HidWrite(report) ==
    \E ok \in HidOutcomes(hid_fd) :
        IF ok
        THEN hid_out' = report /\ hid_fd' = hid_fd
        ELSE hid_out' = << >> /\ hid_fd' = "none"

\* The hid_fd check of _w left out.
HidAvailable_Unchecked(fd) == TRUE

\* Whether _w goes on to the HID state after uin.write.
HidAvailable(fd) == fd # "none"

\* self.uin.write(ev_type, code, value), when it returns.
WWrite(ev) ==
    /\ uin_out' = << ev >>
    /\ uin_rf' = IF ev.type = "EV_KEY" /\ ev.code = rf_button THEN ev.value ELSE uin_rf

\* _w after uin.write: the hid_fd check, the state update and the report.
WBody(ev) ==
    /\ IF ~HidAvailable(hid_fd)
       THEN /\ hid_out' = << >>
            /\ popped' = << >>
            /\ UNCHANGED << hid_fd, _mod_state, _keys_down, _mouse_buttons >>
       ELSE LET e == WEffect(_mod_state, _keys_down, _mouse_buttons, ev)
            IN  /\ _mod_state' = e.mod
                /\ _keys_down' = e.keys
                /\ _mouse_buttons' = e.mouse
                /\ popped' = e.popped
                /\ IF e.report = << >>
                   THEN hid_out' = << >> /\ hid_fd' = hid_fd
                   ELSE HidWrite(e.report)

\* _w(ev.type, ev.code, ev.value), the whole critical section.
W(ev) == WWrite(ev) /\ WBody(ev)

\* _syn(): uin.syn() under the lock.
Syn ==
    /\ uin_out' = << SynEv >>
    /\ hid_out' = << >>
    /\ popped' = << >>
    /\ UNCHANGED << hid_fd, _mod_state, _keys_down, _mouse_buttons, uin_rf >>

-----------------------------------------------------------------------------
\* The handlers of the dispatch loop, up to their first _w

\* The loop of _handle_key over dir(ecodes): the first BTN_ name with this
\* value, "" for None.
ButtonName(code) ==
    IF \E i \in 1..Len(ecodes_BTN) : ecodes_BTN[i].code = code
    THEN ecodes_BTN[CHOOSE i \in 1..Len(ecodes_BTN) :
                        /\ ecodes_BTN[i].code = code
                        /\ \A j \in 1..(i-1) : ecodes_BTN[j].code # code].name
    ELSE ""

\* button_name and button_name in self.key_map
IsMapped(code) == ButtonName(code) # "" /\ ButtonName(code) \in DOMAIN key_map

\* The _w and _syn calls _handle_key(code, value) makes.
KeyOps(code, value) ==
    IF IsMapped(code)
    THEN << KeyEv(key_map[ButtonName(code)], value), SynEv >>
    ELSE IF code = BTN_TL2
    THEN << KeyEv("BTN_LEFT", value), SynEv >>
    ELSE << >>

\* Whether _handle_key(code, value) flips rf_enabled.
TogglesRapidFire(code, value) == ~IsMapped(code) /\ code = BTN_TR2 /\ value = 1

\* ApplyDeadzone with the boundary inside the deadzone.
ApplyDeadzone_Inclusive(v, dz) == IF Abs(v) <= dz THEN 0 ELSE v

\* if abs(v) < self.deadzone: v = 0
ApplyDeadzone(v, dz) == IF Abs(v) < dz THEN 0 ELSE v

\* Scale with the quotient rounded down instead of truncated.
Scale_Floors(v, sens) == (v * sens) \div 100

\* int(v * sens / 10), sens in tenths
Scale(v, sens) == PyInt(v * sens, 100)

\* dx and dy of _process_right_stick for the centred, deadzone-applied x, y.
PointerDelta(x, y) ==
    [dx |-> Scale(x, mouse_sens_x),
     dy |-> IF invert_y THEN -Scale(y, mouse_sens_y) ELSE Scale(y, mouse_sens_y)]

\* The _w and _syn calls of _process_right_stick.
RightStickOps(abs) ==
    LET rx == ApplyDeadzone(abs.ABS_RX - 128, deadzone)
        ry == ApplyDeadzone(abs.ABS_RY - 128, deadzone)
        d  == PointerDelta(rx, ry)
    IN  IF rx = 0 /\ ry = 0
        THEN << >>
        ELSE (IF d.dx # 0 THEN << RelEv("REL_X", d.dx) >> ELSE << >>)
             \o (IF d.dy # 0 THEN << RelEv("REL_Y", d.dy) >> ELSE << >>)
             \o << SynEv >>

\* keys_state of _process_left_stick for the centred, deadzone-applied x, y.
KeysState(x, y) ==
    [KEY_W |-> IF y < -deadzone THEN 1 ELSE 0,
     KEY_S |-> IF y < -deadzone THEN 0 ELSE IF y > deadzone THEN 1 ELSE 0,
     KEY_A |-> IF x < -deadzone THEN 1 ELSE 0,
     KEY_D |-> IF x < -deadzone THEN 0 ELSE IF x > deadzone THEN 1 ELSE 0]

\* LeftStickOps with only the asserted directions sent.
LeftStickOps_AssertedOnly(abs) ==
    LET x  == ApplyDeadzone(abs.ABS_X - 128, deadzone)
        y  == ApplyDeadzone(abs.ABS_Y - 128, deadzone)
        ks == KeysState(x, y)
    IN  (IF ks.KEY_W = 1 THEN << KeyEv("KEY_W", 1) >> ELSE << >>)
        \o (IF ks.KEY_S = 1 THEN << KeyEv("KEY_S", 1) >> ELSE << >>)
        \o (IF ks.KEY_A = 1 THEN << KeyEv("KEY_A", 1) >> ELSE << >>)
        \o (IF ks.KEY_D = 1 THEN << KeyEv("KEY_D", 1) >> ELSE << >>)
        \o << SynEv >>

\* The _w and _syn calls of _process_left_stick.
LeftStickOps(abs) ==
    LET x  == ApplyDeadzone(abs.ABS_X - 128, deadzone)
        y  == ApplyDeadzone(abs.ABS_Y - 128, deadzone)
        ks == KeysState(x, y)
    IN  << KeyEv("KEY_W", ks.KEY_W), KeyEv("KEY_S", ks.KEY_S),
           KeyEv("KEY_A", ks.KEY_A), KeyEv("KEY_D", ks.KEY_D), SynEv >>

\* The threshold of the L2 trigger.
TriggerThreshold == 200

\* The _w and _syn calls _handle_abs(code, value) makes, abs already updated.
AbsOps(abs, code, value) ==
    IF code \in {"ABS_RX", "ABS_RY"} THEN RightStickOps(abs)
    ELSE IF code \in {"ABS_X", "ABS_Y"} THEN LeftStickOps(abs)
    ELSE IF code = "ABS_Z"
    THEN << KeyEv("BTN_LEFT", IF value > TriggerThreshold THEN 1 ELSE 0), SynEv >>
    ELSE << >>

-----------------------------------------------------------------------------
\* Construction

Axes == {"ABS_X", "ABS_Y", "ABS_RX", "ABS_RY", "ABS_Z", "ABS_RZ"}

\* The two execution contexts: start() and _rapid_fire_loop().
Threads == {"dispatch", "rf"}

\* len(self.cfg["devices"]): the input devices opened and grabbed.
NumDevices == 2

\* stick.get("deadzone", 10)
DefaultDeadzone == 10

\* mouse_cfg.get("sens_x", 0.5) and ("sens_y", 0.5), in tenths
DefaultMouseSens == 5

\* __init__ after _parse_cfg, but for the configuration: /dev/hidg0 opened
\* or not, the HID state zeroed, the rapid-fire thread at the top of its loop.
InitState ==
    /\ hid_fd \in {"open", "none"}
    /\ _mod_state = 0
    /\ _keys_down = << >>
    /\ _mouse_buttons = 0
    /\ _last_abs_values = [a \in Axes |-> 0]
    /\ rf_enabled = FALSE
    /\ dq = << >>
    /\ pc_rf = "check"
    /\ uin_out = << >>
    /\ hid_out = << >>
    /\ uin_rf = 0
    /\ popped = << >>
    /\ running = TRUE
    /\ _lock = "free"
    /\ frame = [t \in Threads |-> "out"]
    /\ uin = "open"
    /\ dev_objs = [i \in 1..NumDevices |-> [grabbed |-> TRUE, open |-> TRUE]]
    /\ tried = {}
    /\ pc_start = "loop"

\* _parse_cfg on a file that sets none of the options.
Init ==
    /\ InitState
    /\ key_map = DefaultKeyMap
    /\ deadzone = DefaultDeadzone
    /\ mouse_sens_x = DefaultMouseSens
    /\ mouse_sens_y = DefaultMouseSens
    /\ invert_y = FALSE

-----------------------------------------------------------------------------
\* The dispatch loop

\* start() reads an EV_KEY event and _handle_key runs up to its first _w.
ReadKey(code, value) ==
    /\ pc_start = "loop"
    /\ dq = << >>
    /\ rf_enabled' = IF TogglesRapidFire(code, value) THEN ~rf_enabled ELSE rf_enabled
    /\ dq' = KeyOps(code, value)
    /\ uin_out' = << >>
    /\ hid_out' = << >>
    /\ popped' = << >>
    /\ UNCHANGED << hid_fd, _mod_state, _keys_down, _mouse_buttons,
                    _last_abs_values, pc_rf, uin_rf >>
    /\ UNCHANGED cfgVars
    /\ UNCHANGED sessionVars

\* start() reads an EV_ABS event and _handle_abs runs up to its first _w.
ReadAbs(code, value) ==
    /\ pc_start = "loop"
    /\ dq = << >>
    /\ _last_abs_values' = [_last_abs_values EXCEPT ![code] = value]
    /\ dq' = AbsOps(_last_abs_values', code, value)
    /\ uin_out' = << >>
    /\ hid_out' = << >>
    /\ popped' = << >>
    /\ UNCHANGED << hid_fd, _mod_state, _keys_down, _mouse_buttons,
                    rf_enabled, pc_rf, uin_rf >>
    /\ UNCHANGED cfgVars
    /\ UNCHANGED sessionVars

\* The handler's next call is a _w.
DispatchW ==
    /\ dq # << >>
    /\ Head(dq).op = "w"
    /\ W(Head(dq))
    /\ dq' = Tail(dq)
    /\ UNCHANGED << _last_abs_values, rf_enabled, pc_rf >>
    /\ UNCHANGED cfgVars
    /\ UNCHANGED sessionVars

\* The handler's next call is a _syn.
DispatchSyn ==
    /\ dq # << >>
    /\ Head(dq).op = "syn"
    /\ Syn
    /\ dq' = Tail(dq)
    /\ UNCHANGED << _last_abs_values, rf_enabled, pc_rf >>
    /\ UNCHANGED cfgVars
    /\ UNCHANGED sessionVars

-----------------------------------------------------------------------------
\* The rapid-fire thread

\* while self.running: if self.rf_enabled: ... else: time.sleep(0.05)
RfCheck ==
    /\ pc_rf = "check"
    /\ pc_rf' = IF ~running THEN "ended" ELSE IF rf_enabled THEN "press" ELSE "check"
    /\ uin_out' = << >>
    /\ hid_out' = << >>
    /\ popped' = << >>
    /\ UNCHANGED << hid_fd, _mod_state, _keys_down, _mouse_buttons,
                    _last_abs_values, rf_enabled, dq, uin_rf >>
    /\ UNCHANGED cfgVars
    /\ UNCHANGED sessionVars

\* self._w(ecodes.EV_KEY, self.rf_button, 1)
RfPress ==
    /\ pc_rf = "press"
    /\ W(KeyEv(rf_button, 1))
    /\ pc_rf' = "syn_down"
    /\ UNCHANGED << _last_abs_values, rf_enabled, dq >>
    /\ UNCHANGED cfgVars
    /\ UNCHANGED sessionVars

\* RfSynDown with the flag read again after the sleep, and the loop
\* restarted without the release when it is off.
RfSynDown_SkipsRelease ==
    /\ pc_rf = "syn_down"
    /\ Syn
    /\ pc_rf' = IF rf_enabled THEN "release" ELSE "check"
    /\ UNCHANGED << _last_abs_values, rf_enabled, dq >>
    /\ UNCHANGED cfgVars
    /\ UNCHANGED sessionVars

\* self._syn(); time.sleep(period / 2)
RfSynDown ==
    /\ pc_rf = "syn_down"
    /\ Syn
    /\ pc_rf' = "release"
    /\ UNCHANGED << _last_abs_values, rf_enabled, dq >>
    /\ UNCHANGED cfgVars
    /\ UNCHANGED sessionVars

\* RfRelease with the button asserted a second time instead of released.
RfRelease_Presses ==
    /\ pc_rf = "release"
    /\ W(KeyEv(rf_button, 1))
    /\ pc_rf' = "syn_up"
    /\ UNCHANGED << _last_abs_values, rf_enabled, dq >>
    /\ UNCHANGED cfgVars
    /\ UNCHANGED sessionVars

\* self._w(ecodes.EV_KEY, self.rf_button, 0)
RfRelease ==
    /\ pc_rf = "release"
    /\ W(KeyEv(rf_button, 0))
    /\ pc_rf' = "syn_up"
    /\ UNCHANGED << _last_abs_values, rf_enabled, dq >>
    /\ UNCHANGED cfgVars
    /\ UNCHANGED sessionVars

\* self._syn(); time.sleep(period / 2); back to the top of the loop
RfSynUp ==
    /\ pc_rf = "syn_up"
    /\ Syn
    /\ pc_rf' = "check"
    /\ UNCHANGED << _last_abs_values, rf_enabled, dq >>
    /\ UNCHANGED cfgVars
    /\ UNCHANGED sessionVars

-----------------------------------------------------------------------------
\* The whole program under the default configuration

\* The controller buttons the dispatch loop is fed.
Buttons == {BTN_SOUTH, BTN_NORTH, BTN_TL, BTN_TL2, BTN_TR2}

KeyValues == {0, 1}

\* The raw samples the dispatch loop is fed, per axis.
Samples ==
    [ABS_X |-> {128, 228}, ABS_Y |-> {},
     ABS_RX |-> {68, 128}, ABS_RY |-> {},
     ABS_Z |-> {0, 255}, ABS_RZ |-> {0}]

\* One EV_KEY event arrives.
KeyEvent == \E code \in Buttons, value \in KeyValues : ReadKey(code, value)

\* One EV_ABS event arrives.
AbsEvent == \E code \in Axes : \E value \in Samples[code] : ReadAbs(code, value)

Next ==
    \/ KeyEvent
    \/ AbsEvent
    \/ DispatchW
    \/ DispatchSyn
    \/ RfCheck
    \/ RfPress
    \/ RfSynDown
    \/ RfRelease
    \/ RfSynUp

Spec == Init /\ [][Next]_vars

-----------------------------------------------------------------------------
\* The key path under a configuration that maps enough buttons to fill the
\* key list: the dispatch loop alone, fed button events.

\* A key_mapping section of the configuration file: seven buttons on keys
\* with a usage code, one on a modifier, one on a key with no usage code.
WideKeyMap ==
    [ BTN_A      |-> "KEY_SPACE",
      BTN_B      |-> "KEY_ENTER",
      BTN_NORTH  |-> "KEY_E",
      BTN_WEST   |-> "KEY_Q",
      BTN_START  |-> "KEY_ESC",
      BTN_SELECT |-> "KEY_TAB",
      BTN_THUMBL |-> "KEY_F",
      BTN_TL     |-> "KEY_LEFTSHIFT",
      BTN_TR     |-> "KEY_F13" ]

InitKeys ==
    /\ InitState
    /\ key_map = WideKeyMap
    /\ deadzone = DefaultDeadzone
    /\ mouse_sens_x = DefaultMouseSens
    /\ mouse_sens_y = DefaultMouseSens
    /\ invert_y = FALSE

\* The controller buttons the dispatch loop is fed.
WideButtons ==
    {BTN_SOUTH, BTN_EAST, BTN_NORTH, BTN_WEST, BTN_START, BTN_SELECT,
     BTN_THUMBL, BTN_TL, BTN_TR}

\* One EV_KEY event arrives.
WideKeyEvent == \E code \in WideButtons, value \in KeyValues : ReadKey(code, value)

NextKeys ==
    \/ WideKeyEvent
    \/ DispatchW
    \/ DispatchSyn

SpecKeys == InitKeys /\ [][NextKeys]_vars

-----------------------------------------------------------------------------
\* The axis path under several stick configurations: the dispatch loop
\* alone, fed axis samples.

\* (deadzone, sens_x, sens_y, invert_y), sensitivities in tenths: the
\* defaults; 1.0 and 2.0 with Y inverted; 20.0, which drives the deltas past
\* one byte; the defaults with a deadzone of 9.
AxisConfigs ==
    { << DefaultDeadzone, DefaultMouseSens, DefaultMouseSens, FALSE >>,
      << DefaultDeadzone, 10, 20, TRUE >>,
      << DefaultDeadzone, 200, 200, FALSE >>,
      << 9, DefaultMouseSens, 10, TRUE >> }

InitAxis ==
    /\ InitState
    /\ key_map = DefaultKeyMap
    /\ \E c \in AxisConfigs :
          /\ deadzone = c[1]
          /\ mouse_sens_x = c[2]
          /\ mouse_sens_y = c[3]
          /\ invert_y = c[4]

\* The raw samples the dispatch loop is fed, per axis.
AxisSamples ==
    [ABS_X  |-> {118, 119, 128, 138, 228},
     ABS_Y  |-> {118, 128, 137, 138},
     ABS_RX |-> {63, 68, 118, 119, 128, 138, 228},
     ABS_RY |-> {63, 118, 128, 137, 138},
     ABS_Z  |-> {200, 201}, ABS_RZ |-> {0}]

\* One EV_ABS event arrives.
AxisEvent == \E code \in Axes : \E value \in AxisSamples[code] : ReadAbs(code, value)

\* A _w of the handler on a sink whose writes succeed.
DispatchWHealthy == DispatchW /\ hid_fd' = hid_fd

NextAxis ==
    \/ AxisEvent
    \/ DispatchWHealthy
    \/ DispatchSyn

SpecAxis == InitAxis /\ [][NextAxis]_vars

-----------------------------------------------------------------------------
-----------------------------------------------------------------------------
\* The session at the grain of the statements inside _w and _syn: taking
\* self._lock, uin.write or uin.syn, the rest of _w, and leaving the with
\* block are steps of their own, either of them may raise, and start() ends
\* in cleanup().

\* The four calls of one cycle of _rapid_fire_loop, by the thread's position.
RfCall(pc) ==
    CASE pc = "press"    -> KeyEv(rf_button, 1)
      [] pc = "syn_down" -> SynEv
      [] pc = "release"  -> KeyEv(rf_button, 0)
      [] pc = "syn_up"   -> SynEv

\* The position of the rapid-fire thread after the call at pc has returned.
RfAfter(pc) ==
    CASE pc = "press"    -> "syn_down"
      [] pc = "syn_down" -> "release"
      [] pc = "release"  -> "syn_up"
      [] pc = "syn_up"   -> "check"

\* Thread t is at, or inside, a call of _w or _syn. The rapid-fire thread is
\* a daemon: it runs no further once the main thread has left start().
HasCall(t) ==
    IF t = "dispatch"
    THEN pc_start = "loop" /\ dq # << >>
    ELSE pc_rf \in {"press", "syn_down", "release", "syn_up"} /\ pc_start # "exited"

\* The call thread t is at.
Call(t) == IF t = "dispatch" THEN Head(dq) ELSE RfCall(pc_rf)

\* The call of thread t returns.
Returned(t) ==
    /\ dq' = IF t = "dispatch" THEN Tail(dq) ELSE dq
    /\ pc_rf' = IF t = "rf" THEN RfAfter(pc_rf) ELSE pc_rf
    /\ pc_start' = pc_start

\* An exception leaves the call of thread t: in the main thread it passes
\* through _handle_event to the finally clause of start(); in the rapid-fire
\* thread nothing catches it and the thread ends.
Raised(t) ==
    /\ dq' = IF t = "dispatch" THEN << >> ELSE dq
    /\ pc_rf' = IF t = "rf" THEN "dead" ELSE pc_rf
    /\ pc_start' = IF t = "dispatch" THEN "cleanup" ELSE pc_start

\* The step writes to neither sink.
Quiet ==
    /\ uin_out' = << >>
    /\ hid_out' = << >>
    /\ popped' = << >>

\* self._lock.acquire() with the test of the lock left out.
CanAcquire_Always(lock) == TRUE

\* self._lock.acquire() returns when no thread holds the lock.
CanAcquire(lock) == lock = "free"

\* The lock left held when the with block is left by an exception.
ExitWith_HeldOnRaise(raised) == IF raised THEN _lock ELSE "free"

\* The lock after the with block is left, by its end, by a return or
\* (raised) by an exception.
ExitWith(raised) == "free"

\* Whether uin.write and uin.syn can return: not on a device that was closed.
UinOutcomes(u) == IF u = "open" THEN BOOLEAN ELSE {FALSE}

\* with self._lock: thread t enters the critical section of its call.
Acquire(t) ==
    /\ HasCall(t)
    /\ frame[t] = "out"
    /\ CanAcquire(_lock)
    /\ _lock' = t
    /\ frame' = [frame EXCEPT ![t] = "locked"]
    /\ Quiet
    /\ UNCHANGED << hid_fd, _mod_state, _keys_down, _mouse_buttons, _last_abs_values,
                    rf_enabled, dq, pc_rf, uin_rf, running, uin, dev_objs, tried,
                    pc_start >>
    /\ UNCHANGED cfgVars

\* self.uin.write(ev_type, code, value) in _w: it returns, or it raises and
\* the with block is left.
UinWrite(t) ==
    /\ HasCall(t)
    /\ frame[t] = "locked"
    /\ Call(t).op = "w"
    /\ \E ok \in UinOutcomes(uin) :
          IF ok
          THEN /\ WWrite(Call(t))
               /\ hid_out' = << >>
               /\ popped' = << >>
               /\ frame' = [frame EXCEPT ![t] = "written"]
               /\ UNCHANGED << _lock, dq, pc_rf, pc_start >>
          ELSE /\ Quiet
               /\ uin_rf' = uin_rf
               /\ _lock' = ExitWith(TRUE)
               /\ frame' = [frame EXCEPT ![t] = "out"]
               /\ Raised(t)
    /\ UNCHANGED << hid_fd, _mod_state, _keys_down, _mouse_buttons, _last_abs_values,
                    rf_enabled, running, uin, dev_objs, tried >>
    /\ UNCHANGED cfgVars

\* The rest of _w, from the hid_fd check to the end of the with block.
WFinish(t) ==
    /\ HasCall(t)
    /\ frame[t] = "written"
    /\ WBody(Call(t))
    /\ uin_out' = << >>
    /\ uin_rf' = uin_rf
    /\ _lock' = ExitWith(FALSE)
    /\ frame' = [frame EXCEPT ![t] = "out"]
    /\ Returned(t)
    /\ UNCHANGED << _last_abs_values, rf_enabled, running, uin, dev_objs, tried >>
    /\ UNCHANGED cfgVars

\* self.uin.syn() in _syn: it returns and the with block ends, or it raises
\* and the with block is left.
UinSyn(t) ==
    /\ HasCall(t)
    /\ frame[t] = "locked"
    /\ Call(t).op = "syn"
    /\ \E ok \in UinOutcomes(uin) :
          IF ok
          THEN /\ Syn
               /\ _lock' = ExitWith(FALSE)
               /\ frame' = [frame EXCEPT ![t] = "out"]
               /\ Returned(t)
          ELSE /\ Quiet
               /\ UNCHANGED << hid_fd, _mod_state, _keys_down, _mouse_buttons, uin_rf >>
               /\ _lock' = ExitWith(TRUE)
               /\ frame' = [frame EXCEPT ![t] = "out"]
               /\ Raised(t)
    /\ UNCHANGED << _last_abs_values, rf_enabled, running, uin, dev_objs, tried >>
    /\ UNCHANGED cfgVars

\* KeyboardInterrupt in the main thread, wherever it stands in the loop of
\* start(): inside _w or _syn the with block is left first.
Interrupt ==
    /\ pc_start = "loop"
    /\ pc_start' = "cleanup"
    /\ dq' = << >>
    /\ frame' = [frame EXCEPT !["dispatch"] = "out"]
    /\ _lock' = IF _lock = "dispatch" THEN ExitWith(TRUE) ELSE _lock
    /\ Quiet
    /\ UNCHANGED << hid_fd, _mod_state, _keys_down, _mouse_buttons, _last_abs_values,
                    rf_enabled, pc_rf, uin_rf, running, uin, dev_objs, tried >>
    /\ UNCHANGED cfgVars

\* cleanup(): self.running = False
CleanupBegin ==
    /\ pc_start = "cleanup"
    /\ running' = FALSE
    /\ pc_start' = "close_uin"
    /\ Quiet
    /\ UNCHANGED << hid_fd, _mod_state, _keys_down, _mouse_buttons, _last_abs_values,
                    rf_enabled, dq, pc_rf, uin_rf, _lock, frame, uin, dev_objs, tried >>
    /\ UNCHANGED cfgVars

\* cleanup(): self.uin.close(). When it raises, the rest of the try block
\* is skipped and the finally clause runs.
CloseUin ==
    /\ pc_start = "close_uin"
    /\ tried' = tried \cup {<< "uin.close", 0 >>}
    /\ \E ok \in BOOLEAN :
          IF ok
          THEN uin' = "closed" /\ pc_start' = "close_hid"
          ELSE uin' = uin /\ pc_start' = "release_devs"
    /\ Quiet
    /\ UNCHANGED << hid_fd, _mod_state, _keys_down, _mouse_buttons, _last_abs_values,
                    rf_enabled, dq, pc_rf, uin_rf, running, _lock, frame, dev_objs >>
    /\ UNCHANGED cfgVars

\* cleanup(): if self.hid_fd: self.hid_fd.close(). The file is closed
\* whether or not close() raises on its last flush.
CloseHid ==
    /\ pc_start = "close_hid"
    /\ IF hid_fd = "none"
       THEN UNCHANGED << hid_fd, tried >>
       ELSE hid_fd' = "closed" /\ tried' = tried \cup {<< "hid_fd.close", 0 >>}
    /\ pc_start' = "release_devs"
    /\ Quiet
    /\ UNCHANGED << _mod_state, _keys_down, _mouse_buttons, _last_abs_values,
                    rf_enabled, dq, pc_rf, uin_rf, running, _lock, frame, uin, dev_objs >>
    /\ UNCHANGED cfgVars

\* The device the loop of the finally clause stands at.
NextDevice ==
    CHOOSE i \in 1..NumDevices :
        /\ << "close", i >> \notin tried
        /\ \A j \in 1..(i - 1) : << "close", j >> \in tried

\* cleanup(): d.ungrab(), whose exception is passed over.
Ungrab ==
    /\ pc_start = "release_devs"
    /\ << "ungrab", NextDevice >> \notin tried
    /\ tried' = tried \cup {<< "ungrab", NextDevice >>}
    /\ \E ok \in BOOLEAN :
          dev_objs' = [dev_objs EXCEPT ![NextDevice].grabbed = ~ok]
    /\ Quiet
    /\ UNCHANGED << hid_fd, _mod_state, _keys_down, _mouse_buttons, _last_abs_values,
                    rf_enabled, dq, pc_rf, uin_rf, running, _lock, frame, uin, pc_start >>
    /\ UNCHANGED cfgVars

\* cleanup(): d.close(), whose exception leaves the loop and cleanup(). After
\* the last device cleanup() returns and start() with it.
CloseDevice ==
    /\ pc_start = "release_devs"
    /\ << "ungrab", NextDevice >> \in tried
    /\ tried' = tried \cup {<< "close", NextDevice >>}
    /\ \E ok \in BOOLEAN :
          IF ok
          THEN /\ dev_objs' = [dev_objs EXCEPT ![NextDevice] =
                                  [grabbed |-> FALSE, open |-> FALSE]]
               /\ pc_start' = IF NextDevice = NumDevices THEN "exited" ELSE pc_start
          ELSE /\ dev_objs' = dev_objs
               /\ pc_start' = "exited"
    /\ Quiet
    /\ UNCHANGED << hid_fd, _mod_state, _keys_down, _mouse_buttons, _last_abs_values,
                    rf_enabled, dq, pc_rf, uin_rf, running, _lock, frame, uin >>
    /\ UNCHANGED cfgVars

\* The controller buttons the dispatch loop is fed in the session.
SessionButtons == {BTN_NORTH, BTN_TL2, BTN_TR2}

\* One EV_KEY event arrives.
SessionKeyEvent == \E code \in SessionButtons, value \in KeyValues : ReadKey(code, value)

\* The rapid-fire thread is at the top of its loop, the process still alive.
SessionRfCheck == pc_start # "exited" /\ RfCheck

NextSession ==
    \/ SessionKeyEvent
    \/ SessionRfCheck
    \/ \E t \in Threads : Acquire(t)
    \/ \E t \in Threads : UinWrite(t)
    \/ \E t \in Threads : WFinish(t)
    \/ \E t \in Threads : UinSyn(t)
    \/ Interrupt
    \/ CleanupBegin
    \/ CloseUin
    \/ CloseHid
    \/ Ungrab
    \/ CloseDevice

SpecSession == Init /\ [][NextSession]_vars

-----------------------------------------------------------------------------
\* Vocabulary of the properties

\* This step is the dispatch loop's _w of event ev.
DispatchWStep(ev) ==
    /\ dq # << >>
    /\ Head(dq) = ev
    /\ ev.op = "w"
    /\ dq' = Tail(dq)

\* The call the running handler makes next, if a handler is running.
Pending == IF dq = << >> THEN {} ELSE {Head(dq)}

\* This step is the rapid-fire thread's _w of event ev.
RfWStep(ev) ==
    \/ pc_rf = "press" /\ pc_rf' = "syn_down" /\ ev = KeyEv(rf_button, 1)
    \/ pc_rf = "release" /\ pc_rf' = "syn_up" /\ ev = KeyEv(rf_button, 0)

\* ev is an event of an ordinary key: neither a mouse button nor a modifier.
OrdinaryKey(ev) ==
    /\ ev.type = "EV_KEY"
    /\ ev.code \notin DOMAIN MOUSE_BUTTON_BITS
    /\ ev.code \notin DOMAIN MODIFIER_BITS

\* The usage codes now in the active-key list.
Held == {_keys_down[i] : i \in 1..Len(_keys_down)}

\* The last step wrote a keyboard report (report id 1) to the HID sink.
WroteKeyboardReport == hid_out # << >> /\ hid_out[1] = 1

\* The last step wrote a mouse report (report id 2) to the HID sink.
WroteMouseReport == hid_out # << >> /\ hid_out[1] = 2

-----------------------------------------------------------------------------
\* C1

\* The press of a key whose code is not in the list, the list holding six,
\* drops the head of the list and puts the key's code at its tail.
FifoEviction(ev) ==
    /\ Len(_keys_down) = 6
    /\ OrdinaryKey(ev)
    /\ ev.value = 1
    /\ HidOf(ev.code) \notin Held
    => /\ _keys_down' = Tail(_keys_down) \o << HidOf(ev.code) >>
       /\ Len(_keys_down') = 6

\* C1 as stated: the active-key list never holds more than 6 entries, and for
\* any key press passed through _w while 6 keys are held, a key not in the
\* list evicts the head of the list and is appended at its tail.
C1_AsStated ==
    /\ [](Len(_keys_down) <= 6)
    /\ [][\A ev \in Pending : DispatchWStep(ev) => FifoEviction(ev)]_vars

\* C1 amended: the active-key list never holds more than 6 entries; and while
\* the HID sink is available, a press passed through _w of a key that has a
\* usage code in EVDEV_TO_HID and is not in the list, the list holding 6,
\* removes the head of the list and appends the key's code at the tail.
C1_FifoWhileHidAvailable ==
    /\ [](Len(_keys_down) <= 6)
    /\ [][\A ev \in Pending :
            DispatchWStep(ev) /\ hid_fd = "open" /\ HidOf(ev.code) # 0
            => FifoEviction(ev)]_vars

\* A seventh key has just evicted the oldest: the list holds six, its tail is
\* the key just pressed, and the code popped from its head is no longer in it.
C1_Witness ==
    /\ popped # << >>
    /\ Len(_keys_down) = 6
    /\ popped[1] \notin Held
    /\ uin_out # << >>
    /\ uin_out[1].value = 1
    /\ _keys_down[6] = HidOf(uin_out[1].code)

-----------------------------------------------------------------------------
\* C2

\* C2 as stated: every keyboard report written to the HID sink is 8 bytes long.
C2_AsStated == WroteKeyboardReport => Len(hid_out) = 8

\* C2 amended: every keyboard report written to the HID sink is exactly 11
\* bytes long, for 0 to 6 held keys: report id 1, the modifier byte, one zero
\* byte, the held key codes in list order, and zeros in every byte after them.
C2_KeyboardReportLayout ==
    WroteKeyboardReport =>
        /\ Len(hid_out) = 11
        /\ Len(_keys_down) \in 0..6
        /\ hid_out[2] = _mod_state
        /\ hid_out[3] = 0
        /\ \A i \in 1..Len(_keys_down) : hid_out[3 + i] = _keys_down[i]
        /\ \A i \in (4 + Len(_keys_down))..11 : hid_out[i] = 0

\* A keyboard report with six held keys and a modifier set has been written.
C2_Witness ==
    /\ WroteKeyboardReport
    /\ Len(_keys_down) = 6
    /\ _mod_state # 0

-----------------------------------------------------------------------------
\* C3

\* v saturated to [-127, 127].
Saturated(v) == IF v > 127 THEN 127 ELSE IF v < -127 THEN -127 ELSE v

\* The two's-complement byte of v, for v in -128..127.
TwosComplement(v) == IF v < 0 THEN 256 + v ELSE v

\* The delta byte a mouse report carries for event ev on axis code.
DeltaByte(ev, code) ==
    IF ev.type = "EV_REL" /\ ev.code = code
    THEN TwosComplement(Saturated(ev.value))
    ELSE 0

\* C3: every mouse report written to the HID sink is exactly 11 bytes:
\* report id 2, the button mask, the dx byte, the dy byte and 7 zero bytes;
\* the delta bytes are the two's-complement bytes of the event's deltas
\* saturated to [-127, 127] (127 above, -127 below, never wrapped).
C3_MouseReportSaturates ==
    WroteMouseReport =>
        /\ Len(hid_out) = 11
        /\ hid_out[2] = _mouse_buttons
        /\ hid_out[3] = DeltaByte(uin_out[1], "REL_X")
        /\ hid_out[4] = DeltaByte(uin_out[1], "REL_Y")
        /\ \A i \in 5..11 : hid_out[i] = 0

\* A mouse report has been written for a delta above 127, with a button held.
C3_Witness ==
    /\ WroteMouseReport
    /\ uin_out[1].type = "EV_REL"
    /\ uin_out[1].value > 127
    /\ hid_out[3] = 127
    /\ _mouse_buttons # 0

\* A mouse report has been written for a delta below -127.
C3_WitnessBelow ==
    /\ WroteMouseReport
    /\ uin_out[1].type = "EV_REL"
    /\ uin_out[1].value < -127
    /\ hid_out[3] = 129

-----------------------------------------------------------------------------
\* C4

\* This step is a _w of event ev, made by either execution context.
WStep(ev) == DispatchWStep(ev) \/ RfWStep(ev)

\* The events either execution context may pass to _w in this state.
WCandidates == Pending \cup {KeyEv(rf_button, 1), KeyEv(rf_button, 0)}

\* This step is a write to the HID sink that failed.
HidWriteFails == hid_fd = "open" /\ hid_fd' = "none"

\* C4: a failed write to the HID sink marks it unavailable (it writes no
\* byte); once the sink is unavailable it stays unavailable, no later step of
\* the dispatch loop or of the rapid-fire thread writes a byte to it, and
\* every later event passed to _w is still written to the synthetic device.
C4_HidFailureAbsorbed ==
    /\ [][HidWriteFails => hid_out' = << >>]_vars
    /\ [][hid_fd = "none" =>
            /\ hid_fd' = "none"
            /\ hid_out' = << >>
            /\ \A ev \in WCandidates : WStep(ev) => uin_out' = << ev >>]_vars

\* After the sink failed with a key in the list, the release of that key
\* has gone to the synthetic device and not into a report.
C4_Witness ==
    /\ hid_fd = "none"
    /\ uin_out = << KeyEv("KEY_E", 0) >>
    /\ HidOf("KEY_E") \in Held
    /\ hid_out = << >>

\* After the sink failed, the rapid-fire thread's press has gone to the
\* synthetic device and not into a report.
C4_WitnessRapidFire ==
    /\ hid_fd = "none"
    /\ _keys_down # << >>
    /\ uin_out = << KeyEv(rf_button, 1) >>
    /\ hid_out = << >>

-----------------------------------------------------------------------------
\* C5

\* C5 as stated: no state is reachable in which rapid-fire is disabled and
\* the target button is left asserted on the synthetic device.
C5_AsStated == ~(~rf_enabled /\ uin_rf = 1)

\* The rapid-fire thread is in the asserted half of a cycle: its next _w is
\* the release of the target button.
ReleasePending == pc_rf \in {"syn_down", "release"}

\* C5 amended: toggling rapid-fire off does not cut the oscillator's cycle
\* short. The toggle itself writes nothing and leaves the target button as it
\* is; whenever the button is asserted, enabled or not, the oscillator's next
\* _w is pending and is the release of the button. So rapid-fire disabled with
\* the button asserted is reachable, but only until that release (no key is
\* left stuck down).
C5_ReleaseAlwaysPending ==
    /\ [](uin_rf = 1 => ReleasePending)
    /\ [][rf_enabled /\ ~rf_enabled' => uin_rf' = uin_rf /\ pc_rf' = pc_rf]_vars
    /\ [][pc_rf = "release" /\ pc_rf' # "release" =>
            uin_rf' = 0 /\ uin_out' = << KeyEv(rf_button, 0) >>]_vars

\* Rapid-fire was toggled off in the asserted half of a cycle: it is
\* disabled, the button is still asserted and its release is the next _w.
C5_Witness ==
    /\ ~rf_enabled
    /\ uin_rf = 1
    /\ pc_rf = "release"

\* The rapid-fire thread is scheduled: a step of its loop that stays
\* possible is taken.
SpecFair ==
    /\ Spec
    /\ WF_vars(RfSynDown)
    /\ WF_vars(RfRelease)

\* Under that scheduling an asserted target button is always released.
C5_EventuallyReleased == (uin_rf = 1) ~> (uin_rf = 0)

-----------------------------------------------------------------------------
\* C6

\* The events of the running handler: the one just written and those still
\* to write. _last_abs_values holds the samples they were computed from.
Batch == uin_out \o dq

\* The running handler emits a pointer delta on axis code.
Moves(code) ==
    \E i \in 1..Len(Batch) : Batch[i].type = "EV_REL" /\ Batch[i].code = code

\* The running handler sends key code with value 1.
Asserts(code) ==
    \E i \in 1..Len(Batch) :
        Batch[i].type = "EV_KEY" /\ Batch[i].code = code /\ Batch[i].value = 1

\* |s - 128| of the last sample of axis a.
Offset(a) ==
    IF _last_abs_values[a] >= 128
    THEN _last_abs_values[a] - 128
    ELSE 128 - _last_abs_values[a]

\* _process_right_stick has just computed its events and written none yet.
FreshPointerBatch ==
    /\ uin_out = << >>
    /\ dq # << >>
    /\ Head(dq).type \in {"EV_REL", "EV_SYN"}

\* C6 as stated: an axis whose sample has |s - 128| <= deadzone contributes
\* no pointer displacement and asserts no direction key.
C6_AsStated ==
    /\ Moves("REL_X") => Offset("ABS_RX") > deadzone
    /\ Moves("REL_Y") => Offset("ABS_RY") > deadzone
    /\ Asserts("KEY_A") \/ Asserts("KEY_D") => Offset("ABS_X") > deadzone
    /\ Asserts("KEY_W") \/ Asserts("KEY_S") => Offset("ABS_Y") > deadzone

\* C6 amended: for |s - 128| < deadzone an axis contributes no pointer
\* displacement and asserts no direction key, on either side of the centre
\* and for any sensitivity; at |s - 128| = deadzone no direction key is
\* asserted either, but the pointer axis is not zeroed there: it moves exactly
\* when deadzone * sens / 10 reaches 1 (sens in tenths: deadzone * sens >= 100).
C6_DeadzoneBoundary ==
    /\ Moves("REL_X") => Offset("ABS_RX") >= deadzone
    /\ Moves("REL_Y") => Offset("ABS_RY") >= deadzone
    /\ Asserts("KEY_A") \/ Asserts("KEY_D") => Offset("ABS_X") > deadzone
    /\ Asserts("KEY_W") \/ Asserts("KEY_S") => Offset("ABS_Y") > deadzone
    /\ FreshPointerBatch /\ Offset("ABS_RX") = deadzone =>
           (Moves("REL_X") <=> deadzone * mouse_sens_x >= 100)
    /\ FreshPointerBatch /\ Offset("ABS_RY") = deadzone =>
           (Moves("REL_Y") <=> deadzone * mouse_sens_y >= 100)

\* A pointer sample on the boundary on the positive side has produced a
\* displacement, while the digital stick, also on its boundary, asserted nothing.
C6_Witness ==
    /\ FreshPointerBatch
    /\ _last_abs_values["ABS_RX"] = 128 + deadzone
    /\ Moves("REL_X")
    /\ Offset("ABS_X") = deadzone
    /\ Offset("ABS_Y") < deadzone

-----------------------------------------------------------------------------
\* C7

\* ABS_X = 228 has been fed and ABS_Y is unreported or was fed 128, with a
\* deadzone of 10. (No sample fed is 0, the value __init__ leaves in
\* _last_abs_values, so 0 is an axis not yet reported.)
C7_Scenario ==
    /\ deadzone = 10
    /\ _last_abs_values["ABS_X"] = 228
    /\ _last_abs_values["ABS_Y"] \in {0, 128}

\* C7: in that scenario "left", "up" and "down" stay up: the handler sends no
\* value 1 for KEY_A, KEY_W or KEY_S, after the first sample as after the second.
C7_OnlyRightAsserted ==
    C7_Scenario => ~(Asserts("KEY_A") \/ Asserts("KEY_W") \/ Asserts("KEY_S"))

-----------------------------------------------------------------------------
\* C8

\* The sample of axis a recentred, and zero inside the deadzone.
Centred(a) ==
    IF Offset(a) < deadzone THEN 0 ELSE _last_abs_values[a] - 128

\* floor(n / 100)
Floor100(n) == n \div 100

\* n / 100 rounded toward zero: the integer q of the sign of n with
\* 100 * |q| <= |n| < 100 * (|q| + 1).
TowardZero100(n) ==
    CHOOSE q \in -300..300 :
        /\ (n >= 0 => q >= 0 /\ 100 * q <= n /\ n < 100 * (q + 1))
        /\ (n < 0 => q <= 0 /\ 100 * q >= n /\ n > 100 * (q - 1))

\* The pointer stick emits exactly the deltas dx, dy: REL_X with dx iff dx is
\* not 0, REL_Y with dy iff dy is not 0.
EmitsDelta(dx, dy) ==
    /\ \A i \in 1..Len(dq) :
         /\ dq[i].code = "REL_X" => dq[i].value = dx
         /\ dq[i].code = "REL_Y" => dq[i].value = dy
    /\ Moves("REL_X") <=> dx # 0
    /\ Moves("REL_Y") <=> dy # 0

\* C8 as stated: the deltas are floor(x * sens_x / 10) and
\* floor(y * sens_y / 10), dy negated under Y-inversion.
C8_AsStated ==
    FreshPointerBatch =>
        LET fx == Floor100(Centred("ABS_RX") * mouse_sens_x)
            fy == Floor100(Centred("ABS_RY") * mouse_sens_y)
        IN  EmitsDelta(fx, IF invert_y THEN -fy ELSE fy)

\* C8 amended: the deltas are x * sens_x / 10 and y * sens_y / 10 rounded
\* toward zero (int(), not floor), dy negated under Y-inversion; they equal
\* the floor for positive values and for exact quotients, as for sample 68
\* with sensitivity 0.5 (dx = -3).
C8_DeltaTruncates ==
    FreshPointerBatch =>
        LET tx == TowardZero100(Centred("ABS_RX") * mouse_sens_x)
            ty == TowardZero100(Centred("ABS_RY") * mouse_sens_y)
        IN  EmitsDelta(tx, IF invert_y THEN -ty ELSE ty)

\* Sample 63 (x = -65) with sensitivity 0.5 has given dx = -3, where the
\* floor of -3.25 is -4.
C8_Witness ==
    /\ FreshPointerBatch
    /\ mouse_sens_x = 5
    /\ _last_abs_values["ABS_RX"] = 63
    /\ Head(dq) = RelEv("REL_X", -3)

\* Sample 68 with sensitivity 0.5 and ABS_RY = 128 has given dx = -3, dy = 0.
C8_WitnessExample ==
    /\ FreshPointerBatch
    /\ mouse_sens_x = 5
    /\ _last_abs_values["ABS_RX"] = 68
    /\ _last_abs_values["ABS_RY"] = 128
    /\ dq = << RelEv("REL_X", -3), SynEv >>

\* Under Y-inversion a pointer sample below the centre has given a positive dy.
C8_WitnessInverted ==
    /\ FreshPointerBatch
    /\ invert_y
    /\ _last_abs_values["ABS_RY"] = 63
    /\ Moves("REL_Y")
    /\ \A i \in 1..Len(dq) : dq[i].code = "REL_Y" => dq[i].value > 0

-----------------------------------------------------------------------------
\* C9

\* The mapping table has an entry for a name of button code.
HasEntry(code) ==
    \E i \in 1..Len(ecodes_BTN) :
        ecodes_BTN[i].code = code /\ ecodes_BTN[i].name \in DOMAIN key_map

\* The key that entry maps the button to.
EntryTarget(code) ==
    key_map[ecodes_BTN[CHOOSE i \in 1..Len(ecodes_BTN) :
                ecodes_BTN[i].code = code /\ ecodes_BTN[i].name \in DOMAIN key_map].name]

\* C9: for every controller button that has an entry in the mapping table,
\* an event with value v (1 on press, 0 on release) is forwarded as exactly
\* one key event with the mapped target code and value v, followed by a
\* sync, and no built-in behaviour is applied (the rapid-fire flag is left
\* alone).
C9_MappedButtonForwarded ==
    [][\A code \in Buttons, value \in KeyValues :
          HasEntry(code) /\ ReadKey(code, value) =>
              /\ dq' = << KeyEv(EntryTarget(code), value), SynEv >>
              /\ rf_enabled' = rf_enabled]_vars

-----------------------------------------------------------------------------
\* C10

\* The key codes _w is passed under these configurations, and one without a
\* usage code.
KeyCodes ==
    {"KEY_W", "KEY_S", "KEY_A", "KEY_D", "KEY_E", "KEY_Q", "KEY_SPACE",
     "KEY_LEFTSHIFT", "KEY_LEFTCTRL", "BTN_LEFT", "BTN_RIGHT", "KEY_F13"}

\* The Translation State after _w of a release of code in state (mod, keys, mouse).
Released(mod, keys, mouse, code) ==
    LET e == WEffect(mod, keys, mouse, KeyEv(code, 0))
    IN  [mod |-> e.mod, keys |-> e.keys, mouse |-> e.mouse]

\* Releasing code twice in the current state gives what releasing it once gives.
ReleaseIdempotent(code) ==
    LET once == Released(_mod_state, _keys_down, _mouse_buttons, code)
    IN  Released(once.mod, once.keys, once.mouse, code) = once

\* C10: a release passed to _w for an ordinary key whose code is not in the
\* active-key list leaves the active-key list, the modifier mask and the
\* mouse-button mask unchanged; and in every reachable state the same
\* release applied twice gives the state it gives applied once, for ordinary
\* keys, modifiers and mouse buttons alike.
C10_ReleaseOfAbsentKey ==
    /\ [][\A ev \in WCandidates :
            WStep(ev) /\ OrdinaryKey(ev) /\ ev.value = 0 /\ HidOf(ev.code) \notin Held
            => UNCHANGED << _keys_down, _mod_state, _mouse_buttons >>]_vars
    /\ [](\A code \in KeyCodes : ReleaseIdempotent(code))

\* The release of KEY_S, which this configuration never presses, has gone
\* through _w with the sink open, other keys in the list and both masks set.
C10_Witness ==
    /\ uin_out = << KeyEv("KEY_S", 0) >>
    /\ hid_fd = "open"
    /\ WroteKeyboardReport
    /\ _keys_down # << >>
    /\ _mod_state # 0
    /\ _mouse_buttons # 0

-----------------------------------------------------------------------------
\* C11

\* No usage code is at two positions of the active-key list.
NoDuplicates(keys) ==
    \A i, j \in 1..Len(keys) : i # j => keys[i] # keys[j]

\* C11: in every reachable state, whatever the interleaving of the dispatch
\* loop and the rapid-fire thread, each usage code is at most once in the
\* active-key list; and a press passed to _w of a key whose code is already
\* in the list leaves the list as it is: no second entry, no change of
\* position.
C11_KeyListHasNoDuplicates ==
    /\ [](NoDuplicates(_keys_down))
    /\ [][\A ev \in WCandidates :
            WStep(ev) /\ OrdinaryKey(ev) /\ ev.value = 1 /\ HidOf(ev.code) \in Held
            => _keys_down' = _keys_down]_vars

\* KEY_W was pressed again while it was at the head of a list of three, the
\* rapid-fire thread being in the middle of a cycle: it is still at the head,
\* and a report went out.
C11_Witness ==
    /\ uin_out = << KeyEv("KEY_W", 1) >>
    /\ Len(_keys_down) = 3
    /\ _keys_down[1] = HidOf("KEY_W")
    /\ dq # << >>
    /\ pc_rf = "release"
    /\ WroteKeyboardReport

-----------------------------------------------------------------------------
\* C12

\* The Translation State: the masks and the active-key list.
TranslationState == << _mod_state, _keys_down, _mouse_buttons >>

\* The step writes to a sink or changes the Translation State.
Outputs ==
    \/ uin_out' # << >>
    \/ hid_out' # << >>
    \/ TranslationState' # TranslationState

\* The step is taken by the thread that holds the lock.
ByLockHolder == _lock \in Threads /\ frame'[_lock] # frame[_lock]

\* C12: every write to the synthetic device, every update of the Translation
\* State and every write of a HID report is made by the thread that holds
\* the lock; between a thread's write of an event to the synthetic device
\* and the end of its critical section no other event is written to the
\* synthetic device, no other report is written and the Translation State is
\* not changed (so the reports follow the order of the events); and the
\* report written at the end of the section encodes the state as that event
\* leaves it.
C12_ReportsFollowEvents ==
    /\ [][Outputs => ByLockHolder]_vars
    /\ [][\A t \in Threads :
            frame[t] = "written" /\ frame'[t] = "written"
            => uin_out' = << >> /\ hid_out' = << >> /\ UNCHANGED TranslationState]_vars
    /\ [][\A t \in Threads :
            frame[t] = "written" /\ frame'[t] = "out" /\ hid_out' # << >>
            => LET e == WEffect(_mod_state, _keys_down, _mouse_buttons, Call(t))
               IN  /\ hid_out' = e.report
                   /\ TranslationState' = << e.mod, e.keys, e.mouse >>]_vars

\* The rapid-fire thread's press has just gone into a mouse report while
\* the dispatch loop stands before the _w of BTN_LEFT, which changes the
\* same mask.
C12_Witness ==
    /\ pc_rf = "syn_down"
    /\ WroteMouseReport
    /\ frame["dispatch"] = "out"
    /\ dq # << >>
    /\ Head(dq) = KeyEv("BTN_LEFT", 1)

-----------------------------------------------------------------------------
\* C13

\* The step is thread t leaving _w or _syn because its write to the
\* synthetic device raised (or, in the main thread, was interrupted).
UinFails(t) ==
    /\ frame[t] = "locked"
    /\ frame'[t] = "out"
    /\ uin_out' = << >>

\* C13: a failed write to the synthetic device ends the session whichever
\* thread makes it: once the write of the dispatch loop or of the rapid-fire
\* thread has raised, the dispatch loop has stopped and start() is on its
\* way through cleanup().
C13_UinFailureEndsSession ==
    [][\A t \in Threads : UinFails(t) => pc_start' # "loop"]_vars

-----------------------------------------------------------------------------
\* C14

\* C14: once cleanup() has run (start() has been left), the close of the
\* synthetic device and, if /dev/hidg0 was opened, of the HID byte stream
\* have been attempted, and every input device has had its grab released and
\* its close attempted, whichever of the earlier steps of cleanup() raised.
C14_CleanupReleasesEverything ==
    pc_start = "exited" =>
        /\ << "uin.close", 0 >> \in tried
        /\ hid_fd = "open" => << "hid_fd.close", 0 >> \in tried
        /\ \A i \in 1..NumDevices :
              /\ << "close", i >> \in tried
              /\ ~dev_objs[i].grabbed

-----------------------------------------------------------------------------
\* C15

\* C15: the shared mutable state is read and written under the lock only:
\* the step that flips rf_enabled is taken by the dispatch loop with the
\* lock held, the rapid-fire thread reads rf_enabled at the top of its loop
\* with the lock held, and the Translation State is changed by the holder of
\* the lock.
C15_SharedStateUnderLock ==
    [][/\ rf_enabled' # rf_enabled => _lock = "dispatch"
       /\ pc_rf = "check" /\ pc_rf' = "press" => _lock = "rf"
       /\ TranslationState' # TranslationState => ByLockHolder]_vars

-----------------------------------------------------------------------------
\* C16

\* The threads are scheduled and the statements inside the with blocks end:
\* a step inside _w or _syn that stays possible is taken.
SpecSessionFair ==
    /\ SpecSession
    /\ \A t \in Threads :
          WF_vars(UinWrite(t)) /\ WF_vars(WFinish(t)) /\ WF_vars(UinSyn(t))

\* C16: the lock is held only by a thread that is inside _w or _syn; every
\* step by which a thread leaves _w or _syn (the end of the with block, the
\* early return when the HID sink is unavailable, an exception of the
\* synthetic-device write, a failed HID write) leaves the lock free; and,
\* while the process lives, a lock that is held becomes free again, so that
\* no thread waits for it forever.
C16_LockAlwaysReleased ==
    /\ [](\A t \in Threads : _lock = t => frame[t] # "out")
    /\ [][\A t \in Threads : frame[t] # "out" /\ frame'[t] = "out" => _lock' = "free"]_vars
    /\ (_lock # "free") ~> (_lock = "free" \/ pc_start = "exited")

\* After the rapid-fire thread died of an exception inside _w, the dispatch
\* loop has taken the lock again, the HID sink being unavailable.
C16_Witness ==
    /\ pc_rf = "dead"
    /\ hid_fd = "none"
    /\ _lock = "dispatch"
    /\ frame["dispatch"] = "written"

-----------------------------------------------------------------------------
\* C17

\* mask & bit, for bit a power of two
HasBit(mask, bit) == (mask \div bit) % 2 = 1

\* After the step the Translation State shows key event ev: its bit or its
\* entry in the list is there after a press and not there after a release.
Tracked(ev) ==
    IF ev.code \in DOMAIN MOUSE_BUTTON_BITS
    THEN HasBit(_mouse_buttons', MOUSE_BUTTON_BITS[ev.code]) <=> (ev.value # 0)
    ELSE IF ev.code \in DOMAIN MODIFIER_BITS
    THEN HasBit(_mod_state', MODIFIER_BITS[ev.code]) <=> (ev.value # 0)
    ELSE Contains(_keys_down', HidOf(ev.code)) <=> (ev.value # 0)

\* C17 as stated: every key event passed to _w is shown by the Translation
\* State afterwards, whatever the availability of the HID sink.
C17_AsStated ==
    [][\A ev \in WCandidates : WStep(ev) /\ ev.type = "EV_KEY" => Tracked(ev)]_vars

\* C17 amended: a key event passed to _w while the HID sink is available is
\* shown by the Translation State afterwards (also when the write of its
\* report then fails), but for an ordinary key only if the key has a usage
\* code in EVDEV_TO_HID; a key event passed to _w while the HID sink is
\* unavailable, or of an ordinary key with no usage code, is written to the
\* synthetic device and leaves the Translation State as it was.
C17_TrackedWhileHidAvailable ==
    /\ [][\A ev \in WCandidates :
            /\ WStep(ev)
            /\ ev.type = "EV_KEY"
            /\ hid_fd = "open"
            /\ OrdinaryKey(ev) => HidOf(ev.code) # 0
            => Tracked(ev)]_vars
    /\ [][\A ev \in WCandidates :
            /\ WStep(ev)
            /\ ev.type = "EV_KEY"
            /\ hid_fd = "none" \/ (OrdinaryKey(ev) /\ HidOf(ev.code) = 0)
            => /\ uin_out' = << ev >>
               /\ UNCHANGED << _mod_state, _keys_down, _mouse_buttons >>]_vars

\* The release of the modifier has cleared its bit, keys being held and the
\* sink available before the step.
C17_Witness ==
    /\ uin_out = << KeyEv("KEY_LEFTSHIFT", 0) >>
    /\ WroteKeyboardReport
    /\ _mod_state = 0
    /\ Len(_keys_down) >= 2

\* The press of a key went to the synthetic device after the sink had
\* failed: the key is not in the list, which holds other keys.
C17_WitnessUntracked ==
    /\ uin_out = << KeyEv("KEY_E", 1) >>
    /\ hid_fd = "none"
    /\ _keys_down # << >>
    /\ ~Contains(_keys_down, HidOf("KEY_E"))

\* The press of a key with no usage code went to the synthetic device with
\* the sink available and no report.
C17_WitnessNoUsageCode ==
    /\ uin_out = << KeyEv("KEY_F13", 1) >>
    /\ hid_fd = "open"
    /\ hid_out = << >>
    /\ _keys_down # << >>

-----------------------------------------------------------------------------
\* C18

\* The step is a call of _w or _syn by the rapid-fire thread.
RfEmits == pc_rf \in {"press", "syn_down", "release", "syn_up"} /\ pc_rf' # pc_rf

\* Each event the rapid-fire thread writes for its button has the value the
\* last one did not have, the first being a press.
RfAlternates ==
    [][\A ev \in {KeyEv(rf_button, 1), KeyEv(rf_button, 0)} :
          RfWStep(ev) => ev.value = 1 - uin_rf /\ uin_rf' = ev.value]_vars

\* C18 as stated: the events of the rapid-fire thread alternate press,
\* release, starting with a press; the button is released whenever the
\* thread checks the flag; and no step taken while the flag is off is a
\* call of _w or _syn by the rapid-fire thread.
C18_AsStated ==
    /\ RfAlternates
    /\ [](pc_rf = "check" => uin_rf = 0)
    /\ [][~rf_enabled => ~RfEmits]_vars

\* C18 amended: the events of the rapid-fire thread alternate press,
\* release, starting with a press; the button is released whenever the
\* thread checks the flag; a cycle is begun only by a check that reads the
\* flag as on, and a check that reads it as off emits nothing; but a cycle
\* once begun runs to its end, so that its press, its release and its syncs
\* are emitted also when the flag has been turned off in the meantime.
C18_CycleRunsToItsEnd ==
    /\ RfAlternates
    /\ [](pc_rf = "check" => uin_rf = 0)
    /\ [][pc_rf = "check" /\ ~rf_enabled => pc_rf' = "check"]_vars
    /\ [][pc_rf' = "press" /\ pc_rf # "press" => pc_rf = "check" /\ rf_enabled]_vars
    /\ [][pc_rf # "check" /\ pc_rf' # pc_rf => pc_rf' = RfAfter(pc_rf)]_vars

\* The release of a cycle has been written with the flag off.
C18_Witness ==
    /\ ~rf_enabled
    /\ pc_rf = "syn_up"
    /\ uin_out = << KeyEv(rf_button, 0) >>
    /\ uin_rf = 0

-----------------------------------------------------------------------------
\* C19

\* The call the running handler makes next is a _w of a stick handler: an
\* EV_REL event, or one of the four direction keys.
FromStick ==
    \/ Head(dq).type = "EV_REL"
    \/ Head(dq).type = "EV_KEY" /\ Head(dq).code \in {"KEY_W", "KEY_S", "KEY_A", "KEY_D"}

\* All the calls of the stick handler that is running.
StickBatch ==
    IF Head(dq).type = "EV_REL"
    THEN RightStickOps(_last_abs_values)
    ELSE LeftStickOps(_last_abs_values)

\* The dispatch loop is inside the batch of a stick update: it has written
\* at least one of its events and has at least one more to write.
PartlyWritten ==
    /\ dq # << >>
    /\ FromStick
    /\ Len(dq) < Len(StickBatch)

\* The step is a _syn of the rapid-fire thread.
RfSynStep == pc_rf \in {"syn_down", "syn_up"} /\ pc_rf' # pc_rf

\* C19: no sync is issued to the synthetic device by the rapid-fire thread
\* while the dispatch loop's batch of events is only partly written (between
\* the four direction keys of a left-stick update, or between REL_X and
\* REL_Y of a right-stick update).
C19_NoBarrierInsideBatch ==
    [][RfSynStep => ~PartlyWritten]_vars

-----------------------------------------------------------------------------
\* C20

\* The value the batch b sends for key code: the set of the values it sends.
Sent(b, code) ==
    {b[i].value : i \in {j \in 1..Len(b) : b[j].type = "EV_KEY" /\ b[j].code = code}}

\* The batch b is four key events, one for each direction, and one sync
\* after them.
FourKeysAndSync(b) ==
    /\ Len(b) = 5
    /\ \A i \in 1..4 : b[i].op = "w" /\ b[i].type = "EV_KEY"
    /\ {b[i].code : i \in 1..4} = {"KEY_W", "KEY_S", "KEY_A", "KEY_D"}
    /\ b[5] = SynEv

\* The state of the four directions for the samples (sx, sy): a direction
\* is asserted when the sample lies beyond the deadzone on its side.
Recomputed(b, sx, sy) ==
    /\ Sent(b, "KEY_W") = {IF 128 - sy > deadzone THEN 1 ELSE 0}
    /\ Sent(b, "KEY_S") = {IF sy - 128 > deadzone THEN 1 ELSE 0}
    /\ Sent(b, "KEY_A") = {IF 128 - sx > deadzone THEN 1 ELSE 0}
    /\ Sent(b, "KEY_D") = {IF sx - 128 > deadzone THEN 1 ELSE 0}

\* C20: on every sample of ABS_X or ABS_Y the handler sends exactly four key
\* events, one for each of KEY_W, KEY_S, KEY_A, KEY_D, then one sync; each
\* carries the state recomputed from the last samples of both axes, so a
\* direction no longer asserted is sent with value 0; and the two opposing
\* directions of one axis are never both sent with value 1.
C20_AllFourDirectionsResent ==
    [][\A code \in {"ABS_X", "ABS_Y"} : \A value \in AxisSamples[code] :
          ReadAbs(code, value) =>
              /\ FourKeysAndSync(dq')
              /\ Recomputed(dq', _last_abs_values'.ABS_X, _last_abs_values'.ABS_Y)
              /\ ~(1 \in Sent(dq', "KEY_W") /\ 1 \in Sent(dq', "KEY_S"))
              /\ ~(1 \in Sent(dq', "KEY_A") /\ 1 \in Sent(dq', "KEY_D"))]_vars

\* A left-stick sample has been read with "right" held and no longer
\* asserted: the handler is about to send KEY_D with value 0 and KEY_S with
\* value 1.
C20_Witness ==
    /\ uin_out = << >>
    /\ Len(dq) = 5
    /\ dq[2] = KeyEv("KEY_S", 1)
    /\ dq[4] = KeyEv("KEY_D", 0)
    /\ Contains(_keys_down, HidOf("KEY_D"))

-----------------------------------------------------------------------------
\* C21

\* The step is the rapid-fire thread's self.uin.write or self.uin.syn.
RfUsesUin == frame["rf"] = "locked" /\ frame'["rf"] # "locked"

\* The step is the rest of the rapid-fire thread's _w, which writes the
\* report of its button to self.hid_fd unless that is None.
RfUsesHid == frame["rf"] = "written" /\ frame'["rf"] = "out"

\* C21: once cleanup() has closed the synthetic device, the rapid-fire
\* thread issues no write and no sync to it; and once cleanup() has closed
\* the HID byte stream, the rapid-fire thread writes no report to it,
\* whatever point of its cycle the thread had reached when cleanup() ran.
C21_NoUseAfterClose ==
    [][/\ RfUsesUin => uin # "closed"
       /\ RfUsesHid => hid_fd # "closed"]_vars

====
